---- MODULE Spec2Model ----
(***************************************************************************)
(* MultiDocChat: the React client (App, FileUpload, ChatInterface,         *)
(* ApiService) as a state machine, one action per handler or callback.     *)
(* A handler runs to its first await atomically; what follows the await    *)
(* is the action that settles the request.  State of a component that is   *)
(* not mounted is held at its useState initial values, and a setState      *)
(* issued by a callback of an unmounted instance changes nothing.          *)
(* Display-only state (theme, snackbar, timestamps, previews) is left out. *)
(***************************************************************************)
EXTENDS Naturals, Integers, Sequences, FiniteSets, TLC

(* ------------------------------ bounds --------------------------------- *)
MaxClock == 1         \* largest value Date.now() returns
MaxMessages == 3      \* a send is accepted while fewer messages are shown
MaxFiles == 1         \* longest upload list
MaxTimers == 2        \* pending delayed onUploadSuccess timers

(* ------------------------------ values --------------------------------- *)
Null == "<null>"                       \* localStorage.getItem of an absent key
SessionIds == {"s1", "s2"}             \* session_id values the server returns
Answers == {<<"answer">>}              \* response.answer values (texts)
Details == {"detail"}                  \* err.response.data.detail values
NoDetail == "<undefined>"              \* a rejection without response detail

Whitespace == {" ", "\n", "\t"}

\* src: const suggestions = [...]; a text is the sequence of its characters,
\* a run of non-blank characters being written as one element.
suggestions ==
  << <<"What", " ", "is", " ", "this", " ", "document", " ", "about?">>,
     <<"Summarize", " ", "the", " ", "key", " ", "points">>,
     <<"Find", " ", "specific", " ", "information">>,
     <<"Compare", " ", "different", " ", "sections">> >>

\* texts typed into the input field: empty, blank, and padded on both sides
\* with whitespace inside
Texts == {<<>>, <<" ", "\n">>, <<" ", "a", " ", "b", "\t">>}

\* the suggestion chips a user clicks
ClickedChips == {1, 2}

(* String.prototype.trim *)
RECURSIVE TrimStart(_)
TrimStart(s) ==
  IF s # <<>> /\ Head(s) \in Whitespace THEN TrimStart(Tail(s)) ELSE s

RECURSIVE TrimEnd(_)
TrimEnd(s) ==
  IF s # <<>> /\ s[Len(s)] \in Whitespace
  THEN TrimEnd(SubSeq(s, 1, Len(s) - 1)) ELSE s

Trim(s) == TrimEnd(TrimStart(s))

VARIABLES
  \* App; restored tells that the mount effect set the current sessionId
  \* destroyed holds the session ids New Session has reset
  sessionId, isUploaded, appIsLoading, localStorage, effectRan, restored,
  destroyed,
  \* the conversation that was shown when the page was last reloaded, kept
  \* until the mount effect has run
  beforeReload,
  \* FileUpload
  files, uploadError, uploadProgress, intervals, uploadReq, timers,
  \* the session ids the server has returned; create makes a fresh one
  issued,
  \* ChatInterface; posts counts the POST /chat requests this instance
  \* issued, sends the sends it accepted
  messages, inputValue, isLoading, error, chatReqs, lastSend, posts, sends,
  \* environment
  now, clipboard,
  \* the core: session store and chat turns
  store, usedIds, creating, turns

appVars == <<sessionId, isUploaded, appIsLoading, localStorage, effectRan,
             restored, destroyed, beforeReload>>
uploadVars == <<files, uploadError, uploadProgress, intervals, uploadReq, timers,
                issued>>
chatVars == <<messages, inputValue, isLoading, error, chatReqs, lastSend,
              posts, sends>>
coreVars == <<store, usedIds, creating, turns>>
clientVars == <<appVars, uploadVars, chatVars, now, clipboard>>
vars == <<clientVars, coreVars>>


(* ------------------------------ helpers -------------------------------- *)
Range(s) == {s[i] : i \in 1..Len(s)}

\* liked?: boolean and disliked?: boolean: a message is created without
\* them; Not is the ! of JavaScript, under which undefined is falsy
Undefined == "undefined"
Not(v) == IF v = "true" THEN "false" ELSE "true"

\* interface Message, without the display-only timestamp; session_id records
\* the session_id of the request the message was sent with or answers.
Message(id, role, content, sid) ==
  [id |-> id, role |-> role, content |-> content,
   liked |-> Undefined, disliked |-> Undefined, session_id |-> sid]

Core(m) == <<m.id, m.role, m.content>>
Cores(ms) == [i \in 1..Len(ms) |-> Core(ms[i])]

\* useMemo userMessageCount
userMessageCount(ms) == Cardinality({i \in 1..Len(ms) : ms[i].role = "user"})

\* err.response?.data?.detail || fallback
ErrorText(detail, fallback) ==
  IF detail = NoDetail \/ detail = "" THEN fallback ELSE detail

\* no upload is awaited
NoReq == [url |-> "<none>", files |-> <<>>, live |-> FALSE, interval |-> FALSE]

(* ------------- the core: chunker, embedding index, gateway -------------- *)
\* the chat turns the core is given, numbered in the order they arrive
TurnIds == {1, 2}

\* raw extracted text of the files that are ingested
FileTexts == [f1 |-> <<"A", "B", "C">>, f2 |-> <<"C", "D">>]
FileNames == DOMAIN FileTexts
Alphabet == {"A", "B", "C", "D"}
Questions == {<<>>, <<"C", "D">>}

ChunkSize == 2
ChunkOverlap == 1
TopK == 2
WeightScale == 10
DefaultDiversityWeight == 5
HistoryWindow == 2

Min(a, b) == IF a <= b THEN a ELSE b

\* Chunker: windows of ChunkSize characters, consecutive ones sharing
\* ChunkOverlap characters, covering the whole text; empty text, no chunk
RECURSIVE ChunkFrom(_, _, _, _)
ChunkFrom(text, start, size, overlap) ==
  IF start > Len(text) THEN <<>>
  ELSE LET end == Min(start + size - 1, Len(text))
       IN <<SubSeq(text, start, end)>> \o
          (IF end = Len(text) THEN <<>>
           ELSE ChunkFrom(text, start + size - overlap, size, overlap))

Chunker(document, size, overlap) ==
  LET spans == ChunkFrom(document.text, 1, size, overlap)
  IN [i \in 1..Len(spans) |->
        [document |-> document.id, ordinal |-> i, text |-> spans[i]]]

\* the injected embedding function: one count per letter of the alphabet
Embed(text) ==
  [ch \in Alphabet |-> Cardinality({i \in 1..Len(text) : text[i] = ch})]

RECURSIVE SumOver(_, _, _)
SumOver(S, u, v) ==
  IF S = {} THEN 0
  ELSE LET ch == CHOOSE x \in S : TRUE
       IN u[ch] * v[ch] + SumOver(S \ {ch}, u, v)

similarity(u, v) == SumOver(Alphabet, u, v)

\* Embedding Index build(chunks): one EmbeddingVector per chunk, in order
build(chunks) ==
  [i \in 1..Len(chunks) |-> [chunk |-> chunks[i], vector |-> Embed(chunks[i].text)]]

RECURSIVE Flatten(_)
Flatten(seqs) == IF seqs = <<>> THEN <<>> ELSE Head(seqs) \o Flatten(Tail(seqs))

MaxOf(S) == IF S = {} THEN 0 ELSE CHOOSE x \in S : \A y \in S : y <= x

\* Embedding Index search(queryVector, k, diversityWeight): maximal marginal
\* relevance, ties broken by similarity rank and then by position
RECURSIVE Select(_, _, _, _, _)
Select(index, q, k, w, selected) ==
  LET cands == (1..Len(index)) \ Range(selected)
      sim(i) == similarity(q, index[i].vector)
      redundancy(i) ==
        MaxOf({similarity(index[i].vector, index[selected[j]].vector) :
                 j \in 1..Len(selected)})
      score(i) == w * sim(i) - (WeightScale - w) * redundancy(i)
      better(i, j) ==
        \/ score(i) > score(j)
        \/ score(i) = score(j) /\ sim(i) > sim(j)
        \/ score(i) = score(j) /\ sim(i) = sim(j) /\ i < j
  IN IF Len(selected) = k \/ cands = {} THEN selected
     ELSE Select(index, q, k, w,
                 Append(selected,
                        CHOOSE i \in cands : \A j \in cands \ {i} : better(i, j)))

search(index, q, k, w) ==
  LET picked == Select(index, q, k, w, <<>>)
  IN [j \in 1..Len(picked) |->
        [chunk |-> index[picked[j]].chunk,
         score |-> similarity(q, index[picked[j]].vector)]]

\* LLM Provider Gateway: the providers in priority order, the primary first
Providers == <<"primary", "secondary", "tertiary">>
TransientFailures == {"timeout", "rate_limit"}
ProviderOutput(provider) == <<provider>>

IdleTurn ==
  [pc |-> "Idle", session |-> "", question |-> <<>>, query |-> <<>>,
   retrieved |-> <<>>, prompt |-> <<>>, answer |-> <<>>, attempted |-> <<>>,
   calls |-> 0, error |-> ""]

CoreInit ==
  /\ store = << >>
  /\ usedIds = {}
  /\ creating = {}
  /\ turns = [t \in TurnIds |-> IdleTurn]

(* ------------------------------- Init ---------------------------------- *)
AppInit ==
  /\ sessionId = ""
  /\ isUploaded = FALSE
  /\ appIsLoading = FALSE
  /\ effectRan = FALSE
  /\ restored = FALSE

FileUploadInit ==
  /\ files = <<>>
  /\ uploadError = ""
  /\ uploadProgress = 0

ChatInterfaceInit ==
  /\ messages = <<>>
  /\ inputValue = <<>>
  /\ isLoading = FALSE
  /\ error = ""

Init ==
  /\ AppInit
  /\ FileUploadInit
  /\ ChatInterfaceInit
  /\ localStorage = Null
  /\ destroyed = {}
  /\ beforeReload = <<>>
  /\ issued = {}
  /\ intervals = 0
  /\ uploadReq = NoReq
  /\ timers = <<>>
  /\ chatReqs = {}
  /\ lastSend = "none"
  /\ posts = 0
  /\ sends = 0
  /\ now = 0
  /\ clipboard = <<>>
  /\ CoreInit

\* A component unmounts: its state is gone, the next mount starts from the
\* useState initial values.
FileUploadUnmount ==
  /\ files' = <<>>
  /\ uploadError' = ""
  /\ uploadProgress' = 0
  /\ intervals' = 0
  /\ uploadReq' = IF uploadReq = NoReq THEN NoReq
                  ELSE [uploadReq EXCEPT !.live = FALSE, !.interval = FALSE]

ChatInterfaceUnmount ==
  /\ messages' = <<>>
  /\ inputValue' = <<>>
  /\ isLoading' = FALSE
  /\ error' = ""
  /\ chatReqs' = {}
  /\ lastSend' = "none"
  /\ posts' = 0
  /\ sends' = 0

(* -------------------------------- App ---------------------------------- *)
\* mutant: the mount effect does not read the saved session
MountEffect_NoRestore ==
  /\ ~effectRan
  /\ effectRan' = TRUE
  /\ beforeReload' = <<>>
  /\ UNCHANGED <<sessionId, isUploaded, restored, appIsLoading, localStorage, destroyed,
                 uploadVars, chatVars, now, clipboard, coreVars>>

\* useEffect(() => {...}, []) of App
MountEffect ==
  /\ ~effectRan
  /\ effectRan' = TRUE
  /\ beforeReload' = <<>>
  /\ IF localStorage # Null /\ localStorage # ""
     THEN sessionId' = localStorage /\ isUploaded' = TRUE /\ restored' = TRUE
     ELSE UNCHANGED <<sessionId, isUploaded, restored>>
  /\ UNCHANGED <<appIsLoading, localStorage, destroyed, uploadVars, chatVars, now, clipboard, coreVars>>

\* mutant: the session id is not saved
handleUploadSuccess_NoSave(newSessionId) ==
  /\ sessionId' = newSessionId
  /\ isUploaded' = TRUE
  /\ localStorage' = localStorage
  /\ restored' = FALSE

handleUploadSuccess(newSessionId) ==
  /\ sessionId' = newSessionId
  /\ isUploaded' = TRUE
  /\ localStorage' = newSessionId
  /\ restored' = FALSE

\* the setTimeout(() => onUploadSuccess(response.session_id), 500) callback;
\* equal delays fire in the order they were set
UploadSuccessTimer ==
  /\ effectRan
  /\ timers # <<>>
  /\ handleUploadSuccess(Head(timers))
  /\ timers' = Tail(timers)
  /\ IF isUploaded
     THEN UNCHANGED <<files, uploadError, uploadProgress, intervals, uploadReq>>
     ELSE FileUploadUnmount
  /\ UNCHANGED <<appIsLoading, effectRan, beforeReload, destroyed, issued, chatVars, now,
                 clipboard, coreVars>>

\* mutant: the saved session id is not removed
handleNewSession_KeepStorage ==
  /\ effectRan
  /\ isUploaded
  /\ sessionId' = ""
  /\ isUploaded' = FALSE
  /\ destroyed' = destroyed \cup {sessionId}
  /\ restored' = FALSE
  /\ ChatInterfaceUnmount
  /\ UNCHANGED <<appIsLoading, localStorage, effectRan, beforeReload, uploadVars, now,
                 clipboard, coreVars>>

handleNewSession ==
  /\ effectRan
  /\ isUploaded
  /\ sessionId' = ""
  /\ isUploaded' = FALSE
  /\ localStorage' = Null
  /\ destroyed' = destroyed \cup {sessionId}
  /\ restored' = FALSE
  /\ ChatInterfaceUnmount
  /\ UNCHANGED <<appIsLoading, effectRan, beforeReload, uploadVars, now, clipboard, coreVars>>

\* the page is reloaded: every component, timer and request is gone, only
\* localStorage survives
Reload ==
  /\ effectRan
  /\ sessionId' = ""
  /\ isUploaded' = FALSE
  /\ appIsLoading' = FALSE
  /\ effectRan' = FALSE
  /\ beforeReload' = Cores(messages)
  /\ restored' = FALSE
  /\ files' = <<>>
  /\ uploadError' = ""
  /\ uploadProgress' = 0
  /\ intervals' = 0
  /\ uploadReq' = NoReq
  /\ timers' = <<>>
  /\ ChatInterfaceUnmount
  /\ UNCHANGED <<localStorage, destroyed, issued, now, clipboard, coreVars>>

(* ----------------------------- FileUpload ------------------------------ *)
\* useDropzone({accept, maxSize})
accept == {"application/pdf",
           "application/vnd.openxmlformats-officedocument.wordprocessingml.document",
           "text/plain"}
maxSize == 50 * 1024 * 1024

\* files a user may drop: [type, size]
DroppedFiles ==
  [type : {"application/pdf", "text/plain", "image/png"},
   size : {maxSize, maxSize + 1}]
DropBatches == UNION {[1..n -> DroppedFiles] : n \in 1..2}

\* mutant: the dropzone is configured without maxSize
Accepted_AnySize(file) == file.type \in accept

\* the dropzone hands onDrop the files that pass accept and maxSize
Accepted(file) == file.type \in accept /\ file.size <= maxSize
acceptedFiles(dropped) == SelectSeq(dropped, Accepted)

onDrop(dropped) ==
  /\ effectRan
  /\ ~isUploaded
  /\ Len(files) + Len(acceptedFiles(dropped)) <= MaxFiles
  /\ uploadError' = ""
  /\ files' = files \o acceptedFiles(dropped)
  /\ UNCHANGED <<appVars, uploadProgress, intervals, uploadReq, timers, issued,
                 chatVars, now, clipboard, coreVars>>

\* the delete button of a list entry, disabled={isLoading}
removeFile(index) ==
  /\ effectRan
  /\ ~isUploaded
  /\ ~appIsLoading
  /\ index \in 1..Len(files)
  /\ files' = SubSeq(files, 1, index - 1) \o SubSeq(files, index + 1, Len(files))
  /\ UNCHANGED <<appVars, uploadError, uploadProgress, intervals, uploadReq,
                 timers, issued, chatVars, now, clipboard, coreVars>>

\* ApiService.uploadFiles(files): one POST /upload carrying the files
uploadFiles(fs) == [url |-> "/upload", files |-> fs, live |-> TRUE, interval |-> TRUE]

\* handleUpload up to its await; the button is disabled={files.length === 0 || isLoading}
handleUpload ==
  /\ effectRan
  /\ ~isUploaded
  /\ ~appIsLoading
  /\ files # <<>>
  /\ Len(timers) < MaxTimers
  /\ intervals < MaxTimers
  /\ appIsLoading' = TRUE
  /\ uploadError' = ""
  /\ uploadProgress' = 0
  /\ uploadReq' = uploadFiles(files)
  /\ UNCHANGED <<sessionId, isUploaded, localStorage, destroyed, effectRan, beforeReload, restored, files,
                 intervals, timers, issued, chatVars, now, clipboard, coreVars>>

\* the setInterval callback's updater: prev >= 90 clears the interval
ProgressStep(prev) == IF prev >= 90 THEN 90 ELSE prev + 10

\* a tick of the progress interval of the upload that is being awaited
progressInterval ==
  /\ uploadReq # NoReq
  /\ uploadReq.live
  /\ uploadReq.interval
  /\ uploadProgress' = ProgressStep(uploadProgress)
  /\ uploadReq' = [uploadReq EXCEPT !.interval = (uploadProgress < 90)]
  /\ UNCHANGED <<appVars, files, uploadError, intervals, timers, issued, chatVars, now, clipboard, coreVars>>

\* a tick of a progress interval whose upload was rejected: the catch block
\* does not clear it
orphanInterval ==
  /\ intervals > 0
  /\ uploadProgress' = ProgressStep(uploadProgress)
  /\ intervals' = IF uploadProgress >= 90 THEN intervals - 1 ELSE intervals
  /\ UNCHANGED <<appVars, files, uploadError, uploadReq, timers, issued, chatVars, now, clipboard, coreVars>>

\* handleUpload after the await, uploadFiles resolved
UploadResolve(session_id) ==
  /\ uploadReq # NoReq
  /\ IF uploadReq.live
     THEN uploadProgress' = 100
     ELSE UNCHANGED uploadProgress
  /\ session_id \notin issued
  /\ issued' = issued \cup {session_id}
  /\ timers' = Append(timers, session_id)
  /\ appIsLoading' = FALSE
  /\ uploadReq' = NoReq
  /\ UNCHANGED <<sessionId, isUploaded, localStorage, destroyed, effectRan, beforeReload, restored, files,
                 uploadError, intervals, chatVars, now, clipboard, coreVars>>

\* handleUpload after the await, uploadFiles rejected (catch, finally)
UploadReject(detail) ==
  /\ uploadReq # NoReq
  /\ IF uploadReq.live
     THEN /\ uploadError' = ErrorText(detail, "Upload failed. Please try again.")
          /\ uploadProgress' = 0
          /\ intervals' = IF uploadReq.interval THEN intervals + 1 ELSE intervals
     ELSE UNCHANGED <<uploadError, uploadProgress, intervals>>
  /\ appIsLoading' = FALSE
  /\ uploadReq' = NoReq
  /\ UNCHANGED <<sessionId, isUploaded, localStorage, destroyed, effectRan, beforeReload, restored, files,
                 timers, issued, chatVars, now, clipboard, coreVars>>

(* ---------------------------- ChatInterface ---------------------------- *)
\* the TextField's onChange; the field is disabled={isLoading}
handleInputChange(value) ==
  /\ isUploaded
  /\ ~isLoading
  /\ inputValue' = value
  /\ UNCHANGED <<appVars, uploadVars, messages, isLoading, error,
                 chatReqs, lastSend, posts, sends, now, clipboard, coreVars>>

\* the suggestion chips are rendered while messages.length === 0
handleSuggestionClick(suggestion) ==
  /\ isUploaded
  /\ Len(messages) = 0
  /\ inputValue' = suggestion
  /\ UNCHANGED <<appVars, uploadVars, messages, isLoading, error,
                 chatReqs, lastSend, posts, sends, now, clipboard, coreVars>>

\* mutant: the guard tests the raw input, if (!inputValue || isLoading) return;
SendRejected_NoTrim(value, loading) == value = <<>> \/ loading

\* mutant: the early return is missing
SendRejected_Never(value, loading) == FALSE

\* if (!inputValue.trim() || isLoading) return;
SendRejected(value, loading) == Trim(value) = <<>> \/ loading

\* mutant: the request is posted without the session id
sendMessage_NoSession(request, pre) ==
  [url |-> "/chat", session_id |-> "", message |-> request.message, pre |-> pre]

\* ApiService.sendMessage(request): one POST /chat carrying the request;
\* pre records the conversation as it was before the turn began
sendMessage(request, pre) ==
  [url |-> "/chat", session_id |-> request.session_id,
   message |-> request.message, pre |-> pre]

\* handleSendMessage up to its await (Send button, or Enter through
\* handleKeyPress); lastSend records how the last call ended
handleSendMessage ==
  /\ isUploaded
  /\ IF SendRejected(inputValue, isLoading)
     THEN /\ lastSend' = "ignored"
          /\ UNCHANGED <<messages, inputValue, isLoading, error, chatReqs, now,
                         posts, sends>>
     ELSE /\ Len(messages) < MaxMessages
          /\ \E t \in now..MaxClock :
               LET userMessage == Message(t, "user", Trim(inputValue), sessionId)
               IN /\ now' = t
                  /\ messages' = Append(messages, userMessage)
                  /\ chatReqs' = chatReqs \cup
                       {sendMessage([session_id |-> sessionId,
                                     message |-> userMessage.content],
                                    Cores(messages))}
          /\ inputValue' = <<>>
          /\ isLoading' = TRUE
          /\ error' = ""
          /\ lastSend' = "sent"
          /\ sends' = sends + 1
          /\ posts' = posts + 1
  /\ UNCHANGED <<appVars, uploadVars, clipboard, coreVars>>

\* mutant: setMessages(prev => [assistantMessage, ...prev])
ChatResolve_Prepend(req, answer) ==
  /\ req \in chatReqs
  /\ \E t \in now..MaxClock :
       /\ now' = t
       /\ messages' = <<Message(t + 1, "assistant", answer, req.session_id)>>
                         \o messages
  /\ isLoading' = FALSE
  /\ chatReqs' = chatReqs \ {req}
  /\ UNCHANGED <<appVars, uploadVars, inputValue, error, lastSend, posts, sends, clipboard, coreVars>>

\* handleSendMessage after the await, sendMessage resolved
ChatResolve(req, answer) ==
  /\ req \in chatReqs
  /\ \E t \in now..MaxClock :
       /\ now' = t
       /\ messages' = Append(messages,
                             Message(t + 1, "assistant", answer, req.session_id))
  /\ isLoading' = FALSE
  /\ chatReqs' = chatReqs \ {req}
  /\ UNCHANGED <<appVars, uploadVars, inputValue, error, lastSend, posts, sends, clipboard, coreVars>>

\* mutant: the catch block posts the request again
ChatReject_Retry(req, detail) ==
  /\ req \in chatReqs
  /\ error' = ErrorText(detail, "Failed to send message. Please try again.")
  /\ IF posts <= sends
     THEN posts' = posts + 1 /\ UNCHANGED <<isLoading, chatReqs>>
     ELSE posts' = posts /\ isLoading' = FALSE /\ chatReqs' = chatReqs \ {req}
  /\ UNCHANGED <<appVars, uploadVars, messages, inputValue, lastSend, sends,
                 now, clipboard, coreVars>>

\* mutant: the catch block without the finally block
ChatReject_NoFinally(req, detail) ==
  /\ req \in chatReqs
  /\ error' = ErrorText(detail, "Failed to send message. Please try again.")
  /\ chatReqs' = chatReqs \ {req}
  /\ UNCHANGED <<appVars, uploadVars, messages, inputValue, isLoading, lastSend, posts, sends,
                 now, clipboard, coreVars>>

\* handleSendMessage after the await, sendMessage rejected (catch, finally)
ChatReject(req, detail) ==
  /\ req \in chatReqs
  /\ error' = ErrorText(detail, "Failed to send message. Please try again.")
  /\ isLoading' = FALSE
  /\ chatReqs' = chatReqs \ {req}
  /\ UNCHANGED <<appVars, uploadVars, messages, inputValue, lastSend, posts, sends, now,
                 clipboard, coreVars>>

\* the action buttons are rendered for assistant messages
AssistantMessages == {i \in 1..Len(messages) : messages[i].role = "assistant"}

\* mutant: { ...msg, liked: !msg.liked }
Like_KeepDislike(msg, messageId) ==
  IF msg.id = messageId
  THEN [msg EXCEPT !.liked = Not(msg.liked)] ELSE msg

Like(msg, messageId) ==
  IF msg.id = messageId
  THEN [msg EXCEPT !.liked = Not(msg.liked), !.disliked = "false"] ELSE msg

Dislike(msg, messageId) ==
  IF msg.id = messageId
  THEN [msg EXCEPT !.disliked = Not(msg.disliked), !.liked = "false"] ELSE msg

handleLikeMessage(messageId) ==
  /\ messages' = [i \in 1..Len(messages) |-> Like(messages[i], messageId)]
  /\ UNCHANGED <<appVars, uploadVars, inputValue, isLoading, error, chatReqs,
                 lastSend, posts, sends, now, clipboard, coreVars>>

handleDislikeMessage(messageId) ==
  /\ messages' = [i \in 1..Len(messages) |-> Dislike(messages[i], messageId)]
  /\ UNCHANGED <<appVars, uploadVars, inputValue, isLoading, error, chatReqs,
                 lastSend, posts, sends, now, clipboard, coreVars>>

\* navigator.clipboard.writeText(text) resolves (written) or rejects
copyToClipboard(text, written) ==
  /\ clipboard' = IF written THEN text ELSE clipboard
  /\ UNCHANGED <<appVars, uploadVars, chatVars, now, coreVars>>

(* -------------------------------- Next --------------------------------- *)
Next ==
  \/ MountEffect
  \/ UploadSuccessTimer
  \/ handleNewSession
  \/ Reload
  \/ \E dropped \in DropBatches : onDrop(dropped)
  \/ \E index \in 1..MaxFiles : removeFile(index)
  \/ handleUpload
  \/ progressInterval
  \/ orphanInterval
  \/ \E session_id \in SessionIds : UploadResolve(session_id)
  \/ \E detail \in Details \cup {NoDetail} : UploadReject(detail)
  \/ \E value \in Texts : handleInputChange(value)
  \/ \E i \in ClickedChips : handleSuggestionClick(suggestions[i])
  \/ handleSendMessage
  \/ \E req \in chatReqs, answer \in Answers : ChatResolve(req, answer)
  \/ \E req \in chatReqs, detail \in Details \cup {NoDetail} : ChatReject(req, detail)
  \/ \E i \in AssistantMessages : handleLikeMessage(messages[i].id)
  \/ \E i \in AssistantMessages : handleDislikeMessage(messages[i].id)
  \/ \E i \in AssistantMessages, written \in BOOLEAN :
       copyToClipboard(messages[i].content, written)

Spec == Init /\ [][Next]_vars

(* -------------- App and FileUpload: the session life cycle -------------- *)
\* The upload view and App around it, the chat view staying untouched.
NextUpload ==
  \/ MountEffect
  \/ UploadSuccessTimer
  \/ handleNewSession
  \/ Reload
  \/ \E dropped \in DropBatches : onDrop(dropped)
  \/ \E index \in 1..MaxFiles : removeFile(index)
  \/ handleUpload
  \/ progressInterval
  \/ orphanInterval
  \/ \E session_id \in SessionIds : UploadResolve(session_id)
  \/ \E detail \in Details \cup {NoDetail} : UploadReject(detail)

SpecUpload == Init /\ [][NextUpload]_vars

\* The same with the chat view's turns.
NextSession ==
  \/ NextUpload
  \/ \E value \in Texts : handleInputChange(value)
  \/ \E i \in ClickedChips : handleSuggestionClick(suggestions[i])
  \/ handleSendMessage
  \/ \E req \in chatReqs, answer \in Answers : ChatResolve(req, answer)
  \/ \E req \in chatReqs, detail \in Details \cup {NoDetail} : ChatReject(req, detail)

SpecSession == Init /\ [][NextSession]_vars

(* ------------------- the ChatInterface on its own ----------------------- *)
\* The chat view as App shows it once the first delayed onUploadSuccess has
\* made a session current, a second one possibly still pending.
InitChat ==
  /\ sessionId = "s1"
  /\ isUploaded = TRUE
  /\ appIsLoading = FALSE
  /\ localStorage = sessionId
  /\ effectRan = TRUE
  /\ restored = FALSE
  /\ FileUploadInit
  /\ ChatInterfaceInit
  /\ intervals = 0
  /\ uploadReq = NoReq
  /\ timers \in {<<>>} \cup {<<s>> : s \in SessionIds \ {sessionId}}
  /\ issued = {sessionId} \cup Range(timers)
  /\ destroyed = {}
  /\ beforeReload = <<>>
  /\ chatReqs = {}
  /\ lastSend = "none"
  /\ posts = 0
  /\ sends = 0
  /\ now = 0
  /\ clipboard = <<>>
  /\ CoreInit

NextChat ==
  \/ UploadSuccessTimer
  \/ handleNewSession
  \/ \E value \in Texts : handleInputChange(value)
  \/ \E i \in ClickedChips : handleSuggestionClick(suggestions[i])
  \/ handleSendMessage
  \/ \E req \in chatReqs, answer \in Answers : ChatResolve(req, answer)
  \/ \E req \in chatReqs, detail \in Details \cup {NoDetail} : ChatReject(req, detail)
  \/ \E i \in AssistantMessages : handleLikeMessage(messages[i].id)
  \/ \E i \in AssistantMessages : handleDislikeMessage(messages[i].id)
  \/ \E i \in AssistantMessages, written \in BOOLEAN :
       copyToClipboard(messages[i].content, written)

SpecChat == InitChat /\ [][NextChat]_vars

\* every POST /chat settles: the server answers, or axios rejects it at the
\* latest when apiClient's timeout expires
ChatSettles ==
  \E req \in chatReqs :
    \/ \E answer \in Answers : ChatResolve(req, answer)
    \/ \E detail \in Details \cup {NoDetail} : ChatReject(req, detail)



(* ------------ one ChatInterface instance, one session id ---------------- *)
\* The chat view of a session set by onUploadSuccess, no other delayed
\* onUploadSuccess pending: the sessionId prop stays as it is until New
\* Session unmounts the view.
InitView ==
  /\ InitChat
  /\ timers = <<>>

NextView ==
  \/ handleNewSession
  \/ \E value \in Texts : handleInputChange(value)
  \/ \E i \in ClickedChips : handleSuggestionClick(suggestions[i])
  \/ handleSendMessage
  \/ \E req \in chatReqs, answer \in Answers : ChatResolve(req, answer)
  \/ \E req \in chatReqs, detail \in Details \cup {NoDetail} : ChatReject(req, detail)
  \/ \E i \in AssistantMessages : handleLikeMessage(messages[i].id)
  \/ \E i \in AssistantMessages : handleDislikeMessage(messages[i].id)
  \/ \E i \in AssistantMessages, written \in BOOLEAN :
       copyToClipboard(messages[i].content, written)

SpecView == InitView /\ [][NextView]_vars

SpecViewLive == SpecView /\ WF_vars(ChatSettles)

(* --------------- the core: session store and orchestrator --------------- *)
\* Session Store get(id): the session, or SessionNotFound
Registered(id) == id \in DOMAIN store

Fail(t, kind) ==
  turns' = [turns EXCEPT ![t].pc = "Failed", ![t].error = kind]

\* Session Store create(documents), first half: a fresh identifier is
\* generated and the documents are chunked; nothing is registered yet
CreateBegin(names) ==
  /\ \E id \in SessionIds \ usedIds :
       /\ usedIds' = usedIds \cup {id}
       /\ creating' = creating \cup {[id |-> id, names |-> names]}
  /\ UNCHANGED <<store, turns, clientVars>>

Documents(id, names) ==
  {[id |-> <<id, n>>, filename |-> n, text |-> FileTexts[n]] : n \in names}

\* the order in which the files of one ingestion are chunked
FileOrder == <<"f1", "f2">>

NewSession(id, names) ==
  LET ordered == SelectSeq(FileOrder, LAMBDA n : n \in names)
      chunks == Flatten([i \in 1..Len(ordered) |->
                           Chunker([id |-> <<id, ordered[i]>>,
                                    filename |-> ordered[i],
                                    text |-> FileTexts[ordered[i]]],
                                   ChunkSize, ChunkOverlap)])
  IN [documents |-> Documents(id, names), index |-> build(chunks),
      history |-> <<>>, lock |-> 0]

\* create, second half: the index is built and the session registered, or
\* chunking/embedding fails (IngestionError) and nothing is registered
CreateFinish(c, embedded) ==
  /\ c \in creating
  /\ creating' = creating \ {c}
  /\ store' = IF embedded
              THEN store @@ (c.id :> NewSession(c.id, c.names))
              ELSE store
  /\ UNCHANGED <<usedIds, turns, clientVars>>

\* mutant: the session is removed whether or not its exclusive section is held
evict_Unguarded(id) ==
  /\ Registered(id)
  /\ store' = [k \in DOMAIN store \ {id} |-> store[k]]
  /\ UNCHANGED <<usedIds, creating, turns, clientVars>>

\* Session Store evict(id) / idle sweep: waits for (is deferred until) the
\* release of the session's exclusive section
evict(id) ==
  /\ Registered(id)
  /\ store[id].lock = 0
  /\ store' = [k \in DOMAIN store \ {id} |-> store[k]]
  /\ UNCHANGED <<usedIds, creating, turns, clientVars>>

\* ReceiveQuestion: the session exists and the question is non-empty
ReceiveQuestion(t, id, question) ==
  /\ turns[t].pc = "Idle"
  /\ \A earlier \in TurnIds : earlier < t => turns[earlier].pc # "Idle"
  /\ turns' = [turns EXCEPT ![t] =
       IF ~Registered(id)
       THEN [IdleTurn EXCEPT !.pc = "Failed", !.error = "SessionNotFound",
                             !.session = id, !.question = question]
       ELSE IF question = <<>>
       THEN [IdleTurn EXCEPT !.pc = "Failed", !.error = "InvalidInput",
                             !.session = id, !.question = question]
       ELSE [IdleTurn EXCEPT !.pc = "Reformulate", !.session = id,
                             !.question = question]]
  /\ UNCHANGED <<store, usedIds, creating, clientVars>>

\* mutant: a failure of the primary is surfaced at once, no fallback
generate_NoFallback(attempted, outcome) ==
  LET provider == Providers[Len(attempted) + 1]
  IN IF outcome = "ok"
     THEN [status |-> "ok", by |-> provider, output |-> ProviderOutput(provider),
           attempted |-> attempted]
     ELSE [status |-> "GenerationError", by |-> "", output |-> <<>>,
           attempted |-> Append(attempted,
                                [provider |-> provider, reason |-> outcome])]

\* LLM Provider Gateway generate, one dispatch: the next provider in priority
\* order answers, or fails and the next one is due, or all have failed
generate(attempted, outcome) ==
  LET provider == Providers[Len(attempted) + 1]
      failed == Append(attempted, [provider |-> provider, reason |-> outcome])
  IN IF outcome = "ok"
     THEN [status |-> "ok", by |-> provider, output |-> ProviderOutput(provider),
           attempted |-> attempted]
     ELSE IF Len(failed) = Len(Providers)
     THEN [status |-> "GenerationError", by |-> "", output |-> <<>>,
           attempted |-> failed]
     ELSE [status |-> "fallback", by |-> "", output |-> <<>>, attempted |-> failed]

UserTexts(history) ==
  SelectSeq(history, LAMBDA turn : turn.role = "user")

\* the standalone query a provider writes for a follow-up question
Rewrite(question, history) ==
  LET asked == UserTexts(history)
  IN IF asked = <<>> THEN question ELSE asked[Len(asked)].text \o question

\* mutant: the gateway is asked whatever the history holds
Reformulate_Always(t, outcome) ==
  LET turn == turns[t]
      r == generate(turn.attempted, outcome)
  IN /\ turn.pc = "Reformulate"
     /\ IF ~Registered(turn.session) THEN Fail(t, "SessionNotFound")
        ELSE turns' = [turns EXCEPT ![t] =
          CASE r.status = "ok" ->
                 [turn EXCEPT !.pc = "Retrieve", !.attempted = <<>>,
                              !.calls = 1,
                              !.query = Rewrite(turn.question,
                                                store[turn.session].history)]
            [] r.status = "fallback" ->
                 [turn EXCEPT !.attempted = r.attempted, !.calls = 1]
            [] OTHER ->
                 [turn EXCEPT !.pc = "Failed", !.error = r.status,
                              !.attempted = r.attempted, !.calls = 1]]
     /\ UNCHANGED <<store, usedIds, creating, clientVars>>

\* Reformulate (§4.4)
Reformulate(t, outcome) ==
  LET turn == turns[t]
      r == generate(turn.attempted, outcome)
  IN /\ turn.pc = "Reformulate"
     /\ IF ~Registered(turn.session) THEN Fail(t, "SessionNotFound")
        ELSE IF store[turn.session].history = <<>>
        THEN turns' = [turns EXCEPT ![t].pc = "Retrieve",
                                    ![t].query = turn.question]
        ELSE turns' = [turns EXCEPT ![t] =
          CASE r.status = "ok" ->
                 [turn EXCEPT !.pc = "Retrieve", !.attempted = <<>>,
                              !.calls = 1,
                              !.query = Rewrite(turn.question,
                                                store[turn.session].history)]
            [] r.status = "fallback" ->
                 [turn EXCEPT !.attempted = r.attempted, !.calls = 1]
            [] OTHER ->
                 [turn EXCEPT !.pc = "Failed", !.error = r.status,
                              !.attempted = r.attempted, !.calls = 1]]
     /\ UNCHANGED <<store, usedIds, creating, clientVars>>

\* mutant: one index shared by every session (a module-level cache)
IndexOf_Shared(id) ==
  Flatten([i \in 1..Len(SelectSeq(<<"s1", "s2">>, Registered)) |->
             store[SelectSeq(<<"s1", "s2">>, Registered)[i]].index])

\* the Embedding Index a session owns
IndexOf(id) == store[id].index

\* Retrieve (§4.5): diversity-aware search of the session's own index
Retrieve(t) ==
  LET turn == turns[t]
  IN /\ turn.pc = "Retrieve"
     /\ IF ~Registered(turn.session) THEN Fail(t, "SessionNotFound")
        ELSE turns' = [turns EXCEPT
               ![t].pc = "AssemblePrompt",
               ![t].retrieved = search(IndexOf(turn.session),
                                       Embed(turn.query), TopK,
                                       DefaultDiversityWeight)]
     /\ UNCHANGED <<store, usedIds, creating, clientVars>>

Recent(history) ==
  SubSeq(history, IF Len(history) > HistoryWindow
                  THEN Len(history) - HistoryWindow + 1 ELSE 1, Len(history))

\* AssemblePrompt
AssemblePrompt(t) ==
  LET turn == turns[t]
  IN /\ turn.pc = "AssemblePrompt"
     /\ IF ~Registered(turn.session) THEN Fail(t, "SessionNotFound")
        ELSE turns' = [turns EXCEPT
               ![t].pc = "Generate",
               ![t].prompt = [system |-> "instruction",
                              context |-> turn.retrieved,
                              history |-> Recent(store[turn.session].history),
                              question |-> turn.query]]
     /\ UNCHANGED <<store, usedIds, creating, clientVars>>

\* Generate (§4.6), one dispatch; the first one acquires the session's
\* exclusive section, which is released when all providers have failed
Generate(t, outcome) ==
  LET turn == turns[t]
      r == generate(turn.attempted, outcome)
  IN /\ turn.pc = "Generate"
     /\ IF ~Registered(turn.session)
        THEN Fail(t, "SessionNotFound") /\ UNCHANGED store
        ELSE /\ store[turn.session].lock \in {0, t}
             /\ turns' = [turns EXCEPT ![t] =
                  CASE r.status = "ok" ->
                         [turn EXCEPT !.pc = "RecordHistory",
                                      !.answer = r.output]
                    [] r.status = "fallback" ->
                         [turn EXCEPT !.attempted = r.attempted]
                    [] OTHER ->
                         [turn EXCEPT !.pc = "Failed", !.error = r.status,
                                      !.attempted = r.attempted]]
             /\ store' = [store EXCEPT ![turn.session].lock =
                            IF r.status = "GenerationError" THEN 0 ELSE t]
     /\ UNCHANGED <<usedIds, creating, clientVars>>

\* mutant: the user turn is recorded alone
RecordHistory_Partial(t) ==
  LET turn == turns[t]
      history == store[turn.session].history
  IN /\ turn.pc = "RecordHistory"
     /\ store' = [store EXCEPT
          ![turn.session].history =
             Append(history, [role |-> "user", text |-> turn.question,
                              seq |-> Len(history) + 1]),
          ![turn.session].lock = 0]
     /\ turns' = [turns EXCEPT ![t].pc = "Done"]
     /\ UNCHANGED <<usedIds, creating, clientVars>>

\* RecordHistory: the user turn and the assistant turn are appended as one
\* unit, and the exclusive section is released
RecordHistory(t) ==
  LET turn == turns[t]
      history == store[turn.session].history
  IN /\ turn.pc = "RecordHistory"
     /\ store' = [store EXCEPT
          ![turn.session].history =
             history \o
             <<[role |-> "user", text |-> turn.question, seq |-> Len(history) + 1],
               [role |-> "assistant", text |-> turn.answer,
                seq |-> Len(history) + 2]>>,
          ![turn.session].lock = 0]
     /\ turns' = [turns EXCEPT ![t].pc = "Done"]
     /\ UNCHANGED <<usedIds, creating, clientVars>>

Outcomes == {"ok"} \cup TransientFailures

NextCore ==
  \/ \E names \in (SUBSET FileNames) \ {{}} : CreateBegin(names)
  \/ \E c \in creating, embedded \in BOOLEAN : CreateFinish(c, embedded)
  \/ \E id \in SessionIds : evict(id)
  \/ \E t \in TurnIds, id \in SessionIds, question \in Questions :
       ReceiveQuestion(t, id, question)
  \/ \E t \in TurnIds, outcome \in Outcomes : Reformulate(t, outcome)
  \/ \E t \in TurnIds : Retrieve(t)
  \/ \E t \in TurnIds : AssemblePrompt(t)
  \/ \E t \in TurnIds, outcome \in Outcomes : Generate(t, outcome)
  \/ \E t \in TurnIds : RecordHistory(t)

SpecCore == Init /\ [][NextCore]_vars

(* ------------------------------ claims --------------------------------- *)
IsPrefix(a, b) == Len(a) <= Len(b) /\ SubSeq(b, 1, Len(a)) = a
Last(ms) == ms[Len(ms)]
Rejections == Details \cup {NoDetail}

\* C1: turn atomicity in the chat client: when the chat request of a turn is
\* rejected, the messages list after the handler has finished equals the list
\* as it was before handleSendMessage was invoked.
C1_TurnAtomicity ==
  [][\A req \in chatReqs, detail \in Rejections :
       ChatReject(req, detail) => Cores(messages') = req.pre]_vars

\* C2: no sharing of history across sessions: every entry of the displayed
\* messages list was sent with, or answers a request sent with, the session id
\* that is currently displayed.
C2_NoSharing ==
  isUploaded => \A i \in 1..Len(messages) : messages[i].session_id = sessionId

\* C4: conversation turns are append-only and keep their order: while the
\* ChatInterface stays mounted, the (id, role, content) sequence before any
\* step is a prefix of the sequence after it.
C4_AppendOnly ==
  [][(isUploaded /\ isUploaded') => IsPrefix(Cores(messages), Cores(messages'))]_vars

\* a conversation of a full turn whose answer was liked, a second send following
C4_Witness ==
  /\ Len(messages) >= 3
  /\ messages[2].role = "assistant"
  /\ messages[2].liked = "true"
  /\ messages[3].role = "user"

\* C5: chat protocol: an accepted send appends exactly one user message holding
\* the trimmed input and issues exactly one POST /chat with the session id
\* shown at send time and that content; a successful response appends exactly
\* one assistant message holding the answer, right after the user message of
\* the same turn; nothing else issues a request.
C5_SendStep ==
  (~isLoading /\ isLoading') =>
    /\ Len(messages') = Len(messages) + 1
    /\ SubSeq(messages', 1, Len(messages)) = messages
    /\ Last(messages').role = "user"
    /\ Last(messages').content = Trim(inputValue)
    /\ \E req \in chatReqs' :
         /\ chatReqs' = chatReqs \cup {req}
         /\ req \notin chatReqs
         /\ req.url = "/chat"
         /\ req.session_id = sessionId
         /\ req.message = Last(messages').content

C5_ResolveStep ==
  \A req \in chatReqs, answer \in Answers :
    ChatResolve(req, answer) =>
      /\ Len(messages') = Len(messages) + 1
      /\ SubSeq(messages', 1, Len(messages)) = messages
      /\ Last(messages').role = "assistant"
      /\ Last(messages').content = answer
      /\ Last(messages).role = "user"
      /\ Last(messages).content = req.message
      /\ Cores(SubSeq(messages, 1, Len(messages) - 1)) = req.pre

C5_Protocol ==
  [][/\ C5_SendStep
     /\ C5_ResolveStep
     /\ (chatReqs' \subseteq chatReqs \/ (~isLoading /\ isLoading'))]_vars

\* a padded input was sent, trimmed, and answered
C5_Witness ==
  /\ Len(messages) = 2
  /\ messages[1].role = "user"
  /\ messages[1].content = <<"a", " ", "b">>
  /\ messages[2].role = "assistant"
  /\ messages[2].content \in Answers
  /\ chatReqs = {}

\* C6: an empty or whitespace-only input is rejected before any state is
\* touched: handleSendMessage issues no request and leaves messages, isLoading,
\* error and inputValue unchanged.
C6_EmptyRejected ==
  [][(Trim(inputValue) = <<>> /\ handleSendMessage) =>
       UNCHANGED <<messages, isLoading, error, inputValue, chatReqs>>]_vars

\* a whitespace-only input was submitted and ignored
C6_Witness ==
  /\ isUploaded
  /\ lastSend = "ignored"
  /\ inputValue = <<" ", "\n">>
  /\ ~isLoading

\* C7: chat turns are serial: at most one chat request of a ChatInterface is in
\* flight, and a send attempted while isLoading is ignored: no request, no
\* message.
C7_Serial ==
  /\ [](Cardinality(chatReqs) <= 1)
  /\ [][(isLoading /\ handleSendMessage) =>
          UNCHANGED <<messages, chatReqs, isLoading, error>>]_vars

\* a send was attempted while a request was in flight, and ignored
C7_Witness ==
  /\ isLoading
  /\ Cardinality(chatReqs) = 1
  /\ lastSend = "ignored"

\* C9: a failed upload registers no session: when uploadFiles rejects, no
\* onUploadSuccess is scheduled, App's sessionId, isUploaded and the stored
\* 'mdc_session_id' stay as they are, and the upload error message is set.
C9_FailedUpload ==
  [][\A detail \in Rejections :
       UploadReject(detail) =>
         /\ UNCHANGED <<sessionId, isUploaded, localStorage, timers>>
         /\ uploadError' # ""]_vars


\* C3: index isolation: whatever was created, chatted and evicted, a search
\* on a session's index returns only chunks of documents ingested into that
\* session, and every index holds only its own session's chunks.
C3_IndexIsolation ==
  /\ \A t \in TurnIds : \A j \in 1..Len(turns[t].retrieved) :
       /\ turns[t].retrieved[j].chunk.document[1] = turns[t].session
       /\ turns[t].retrieved[j].chunk.document[2] \in FileNames
  /\ \A id \in DOMAIN store : \A j \in 1..Len(store[id].index) :
       store[id].index[j].chunk.document \in
         {d.id : d \in store[id].documents}

\* two sessions hold an index, and a search on one of them returned chunks
C3_Witness ==
  /\ Cardinality(DOMAIN store) = 2
  /\ \A id \in DOMAIN store : store[id].index # <<>>
  /\ \E t \in TurnIds : Len(turns[t].retrieved) = TopK

\* C8: provider fallback: providers are tried in priority order from the
\* primary; an answer is the output of exactly the first provider that did
\* not fail, and the turn goes on to record it; GenerationError is surfaced
\* only when every provider was attempted, and lists them all in order.
InPriorityOrder(attempted) ==
  /\ Len(attempted) <= Len(Providers)
  /\ \A j \in 1..Len(attempted) :
       /\ attempted[j].provider = Providers[j]
       /\ attempted[j].reason \in TransientFailures

C8_ProviderFallback ==
  \A t \in TurnIds :
    /\ InPriorityOrder(turns[t].attempted)
    /\ turns[t].pc \in {"RecordHistory", "Done"} =>
         /\ Len(turns[t].attempted) < Len(Providers)
         /\ turns[t].answer =
              ProviderOutput(Providers[Len(turns[t].attempted) + 1])
         /\ turns[t].error = ""
    /\ turns[t].error = "GenerationError" =>
         /\ turns[t].pc = "Failed"
         /\ Len(turns[t].attempted) = Len(Providers)
    /\ (turns[t].pc \in {"Reformulate", "Generate"}
        /\ turns[t].attempted # <<>>) => Len(turns[t].attempted) < Len(Providers)

\* the primary failed, the secondary answered, and the turn was recorded
C8_Witness ==
  \E t \in TurnIds :
    /\ turns[t].pc = "Done"
    /\ Len(turns[t].attempted) = 1
    /\ turns[t].answer = ProviderOutput("secondary")

\* C10: eviction and turns: a session is removed only while none of its turns
\* holds the exclusive section, so a turn inside the section always finds its
\* session; an evicted identifier is never registered again, and every turn
\* step that looks it up afterwards fails with SessionNotFound.
InSection(t) ==
  \/ turns[t].pc = "RecordHistory"
  \/ turns[t].pc = "Generate" /\ turns[t].attempted # <<>>

C10_EvictionSafe ==
  /\ [](\A t \in TurnIds : InSection(t) =>
          Registered(turns[t].session) /\ store[turns[t].session].lock = t)
  /\ [][\A id \in DOMAIN store :
          id \notin DOMAIN store' => store[id].lock = 0]_vars
  /\ [][\A id \in usedIds :
          (~Registered(id) /\ id \notin {c.id : c \in creating})
             => id \notin DOMAIN store']_vars
  /\ [][\A t \in TurnIds :
          (turns'[t] # turns[t] /\ ~Registered(turns'[t].session))
             => /\ turns'[t].pc = "Failed"
                /\ turns'[t].error = "SessionNotFound"]_vars

\* a session was evicted after a turn on it had assembled its prompt and
\* before the turn entered the exclusive section; the turn then failed
C10_Witness ==
  \E t \in TurnIds :
    /\ turns[t].error = "SessionNotFound"
    /\ turns[t].prompt # <<>>
    /\ turns[t].session \in usedIds
    /\ ~Registered(turns[t].session)

\* C11: the busy state is released on every exit path: isLoading is true
\* exactly while a chat request is in flight; when it is released in the
\* mounted chat view, either one assistant message was appended or a
\* non-empty error was set; and, every request settling, a send that set
\* isLoading is eventually followed by isLoading = false.
C11_Released ==
  \/ /\ Len(messages') = Len(messages) + 1
     /\ IsPrefix(messages, messages')
     /\ Last(messages').role = "assistant"
     /\ error' = error
  \/ /\ messages' = messages
     /\ error' # ""

C11_BusyReleased ==
  /\ [](isLoading <=> chatReqs # {})
  /\ [][(isLoading /\ ~isLoading' /\ isUploaded') => C11_Released]_vars
  /\ (isLoading ~> ~isLoading)

\* a send was accepted, its request was rejected, and the view is idle again
\* with the error set
C11_Witness ==
  /\ isUploaded
  /\ lastSend = "sent"
  /\ ~isLoading
  /\ error = "Failed to send message. Please try again."
  /\ Len(messages) = 1

\* C12: no automatic retry of a chat turn: the number of chat requests
\* issued equals the number of accepted sends; a request is issued only by a
\* step in which the user's send is accepted, and a failure issues none and
\* leaves no request of the failed turn in flight.
C12_NoRetry ==
  /\ [](posts = sends)
  /\ [][posts' > posts =>
          /\ posts' = posts + 1
          /\ ~SendRejected(inputValue, isLoading)
          /\ lastSend' = "sent"
          /\ userMessageCount(messages') = userMessageCount(messages) + 1]_vars
  /\ [][(error' # error /\ error' # "") =>
          posts' = posts /\ chatReqs' = {} /\ ~isLoading']_vars

\* two sends were accepted and two requests issued, the last one failed
C12_Witness ==
  /\ isUploaded
  /\ posts = 2
  /\ sends = 2
  /\ error # ""
  /\ chatReqs = {}

\* C13: persistent chat sessions: handleUploadSuccess(s) saves s under
\* 'mdc_session_id', only New Session removes the key, a reload keeps it and
\* starts from the upload view with sessionId = '', and the mount effect then
\* restores sessionId = s with the chat view shown; with the key absent the
\* upload view stays, sessionId = ''.
C13_DelayedSuccess ==
  timers # <<>> /\ timers' = Tail(timers) /\ effectRan /\ effectRan'

C13_PersistentSession ==
  /\ [](~effectRan => sessionId = "" /\ ~isUploaded)
  /\ [](effectRan => IF localStorage = Null
                     THEN sessionId = "" /\ ~isUploaded
                     ELSE sessionId = localStorage /\ isUploaded)
  /\ [][C13_DelayedSuccess => localStorage' = Head(timers)]_vars
  /\ [][localStorage' # localStorage =>
          \/ C13_DelayedSuccess
          \/ isUploaded /\ ~isUploaded' /\ effectRan' /\ localStorage' = Null]_vars
  /\ [][(~effectRan /\ effectRan') =>
          IF localStorage = Null
          THEN sessionId' = "" /\ ~isUploaded'
          ELSE sessionId' = localStorage /\ isUploaded']_vars

\* the page was reloaded and the mount effect restored the saved session
C13_Witness ==
  /\ restored
  /\ effectRan
  /\ isUploaded
  /\ sessionId = "s2"
  /\ localStorage = "s2"

\* C14: explicit reset destroys the client's session: the New Session step
\* ends with sessionId = '', the upload view shown, the key 'mdc_session_id'
\* absent and no chat request left; afterwards the reset session id is never
\* current again, never saved again (so no reload restores it), and no
\* chat request carries it.
C14_NewSessionStep ==
  effectRan /\ effectRan' /\ isUploaded /\ ~isUploaded'

C14_ResetDestroys ==
  /\ [][C14_NewSessionStep =>
          /\ sessionId' = ""
          /\ localStorage' = Null
          /\ chatReqs' = {}
          /\ sessionId \in destroyed']_vars
  /\ [](\A id \in destroyed :
          /\ sessionId # id
          /\ localStorage # id
          /\ \A req \in chatReqs : req.session_id # id
          /\ \A i \in 1..Len(timers) : timers[i] # id)

\* a session was reset, a later upload made another one current, and a
\* reload restored the later one, on which a chat request is in flight
C14_Witness ==
  /\ destroyed = {"s1"}
  /\ restored
  /\ sessionId = "s2"
  /\ \E req \in chatReqs : req.session_id = "s2"

\* C15: file validation before ingestion: every file of the upload list, and
\* every file of a POST /upload, is a PDF, a DOCX or a plain text of at most
\* 50 MB (52428800 bytes); a drop adds exactly its valid files, in order.
C15_Valid(file) ==
  /\ file.type \in
       {"application/pdf", "text/plain",
        "application/vnd.openxmlformats-officedocument.wordprocessingml.document"}
  /\ file.size <= 52428800

C15_FileValidation ==
  /\ [](\A i \in 1..Len(files) : C15_Valid(files[i]))
  /\ [](\A i \in 1..Len(uploadReq.files) : C15_Valid(uploadReq.files[i]))
  /\ [][\A dropped \in DropBatches :
          onDrop(dropped) =>
            /\ IsPrefix(files, files')
            /\ SubSeq(files', Len(files) + 1, Len(files')) =
                 SelectSeq(dropped, C15_Valid)]_vars
  /\ [][uploadReq' # uploadReq /\ uploadReq' # NoReq /\ uploadReq = NoReq
          => uploadReq'.files = files /\ files # <<>>]_vars

\* a file of exactly 50 MB was dropped and is being uploaded
C15_Witness ==
  /\ uploadReq # NoReq
  /\ uploadReq.url = "/upload"
  /\ Len(uploadReq.files) = 1
  /\ uploadReq.files[1].size = 52428800
  /\ uploadReq.files[1].type = "text/plain"

\* C16: a chat turn moves through ReceiveQuestion, Reformulate, Retrieve,
\* AssemblePrompt, Generate, RecordHistory, Done in that order, leaving it
\* only by failing; RecordHistory is entered only from a Generate that
\* produced an answer; a session's history changes only in the RecordHistory
\* step of a turn on it, by the user turn followed by the assistant turn, so
\* every history a reader sees consists of whole turns.
C16_Order ==
  {<<"Idle", "Reformulate">>, <<"Reformulate", "Retrieve">>,
   <<"Retrieve", "AssemblePrompt">>, <<"AssemblePrompt", "Generate">>,
   <<"Generate", "RecordHistory">>, <<"RecordHistory", "Done">>}
  \cup {<<pc, "Failed">> : pc \in {"Idle", "Reformulate", "Retrieve",
                                   "AssemblePrompt", "Generate"}}

C16_Recorded(t, id) ==
  /\ turns[t].pc = "RecordHistory"
  /\ turns'[t].pc = "Done"
  /\ turns[t].session = id
  /\ Len(store'[id].history) = Len(store[id].history) + 2
  /\ IsPrefix(store[id].history, store'[id].history)
  /\ LET n == Len(store[id].history)
     IN /\ store'[id].history[n + 1].role = "user"
        /\ store'[id].history[n + 1].text = turns[t].question
        /\ store'[id].history[n + 2].role = "assistant"
        /\ store'[id].history[n + 2].text = turns[t].answer

C16_TurnOrder ==
  /\ [][\A t \in TurnIds :
          turns'[t].pc # turns[t].pc =>
            <<turns[t].pc, turns'[t].pc>> \in C16_Order]_vars
  /\ [][\A t \in TurnIds :
          (turns'[t].pc = "RecordHistory" /\ turns[t].pc # "RecordHistory") =>
            /\ turns'[t].answer \in {ProviderOutput(Providers[i]) :
                                       i \in 1..Len(Providers)}
            /\ turns'[t].error = ""]_vars
  /\ [][\A id \in DOMAIN store' :
          IF id \in DOMAIN store
          THEN store'[id].history # store[id].history =>
                 \E t \in TurnIds : C16_Recorded(t, id)
          ELSE store'[id].history = <<>>]_vars
  /\ [](\A id \in DOMAIN store : \A i \in 1..Len(store[id].history) :
          store[id].history[i].role =
            IF i % 2 = 1 THEN "user" ELSE "assistant")
  /\ [](\A id \in DOMAIN store : Len(store[id].history) % 2 = 0)

\* two turns on one session are done and both are in its history, in order
C16_Witness ==
  \E id \in DOMAIN store :
    /\ Len(store[id].history) = 4
    /\ \A t \in TurnIds : turns[t].pc = "Done" /\ turns[t].session = id
    /\ store[id].history[2].text = turns[1].answer
    /\ store[id].history[4].text = turns[2].answer

\* C17: reformulation with an empty conversation history hands the question
\* on unchanged in one step and makes no gateway call; a turn for which the
\* gateway was called for reformulation is on a session with history.
C17_ReformulateStep(t) ==
  /\ turns[t].pc = "Reformulate"
  /\ turns'[t] # turns[t]
  /\ Registered(turns[t].session)

C17_EmptyHistory ==
  /\ [][\A t \in TurnIds :
          C17_ReformulateStep(t) =>
            IF store[turns[t].session].history = <<>>
            THEN /\ turns'[t].pc = "Retrieve"
                 /\ turns'[t].query = turns[t].question
                 /\ turns'[t].calls = 0
                 /\ turns'[t].attempted = <<>>
            ELSE turns'[t].calls = 1]_vars
  /\ [](\A t \in TurnIds :
          (turns[t].calls > 0 /\ Registered(turns[t].session)) =>
            store[turns[t].session].history # <<>>)

\* one turn was answered without a reformulation call, its question being
\* the query; the next one on the session had its question rewritten by the
\* gateway
C17_Witness ==
  /\ turns[1].pc = "Done"
  /\ turns[1].calls = 0
  /\ turns[1].query = turns[1].question
  /\ turns[2].session = turns[1].session
  /\ turns[2].calls = 1
  /\ turns[2].query # turns[2].question
  /\ turns[2].pc = "Retrieve"

\* C18: message history persistence: when the page is reloaded and the mount
\* effect restores the session id from localStorage, the chat view shows the
\* messages it showed before the reload.
C18_MessagesPersist ==
  [][(~effectRan /\ effectRan' /\ isUploaded') =>
       Cores(messages') = beforeReload]_vars

\* C19: message ids are unique: no two entries of messages have the same id,
\* whatever non-decreasing values Date.now() returns at the sends and the
\* responses, so a like or dislike on one id changes one message.
C19_UniqueIds ==
  \A i, j \in 1..Len(messages) : messages[i].id = messages[j].id => i = j

\* C20: after a failed upload the progress simulation is stopped: no
\* progress timer of a rejected upload is running, and with no upload
\* awaited an uploadProgress of 0 stays 0.
C20_ProgressStopped ==
  /\ [](intervals = 0)
  /\ [][(uploadReq = NoReq /\ uploadReq' = NoReq /\ uploadProgress = 0)
          => uploadProgress' = 0]_vars

\* C21: feedback flags are mutually exclusive: no message has liked and
\* disliked both true; handleLikeMessage(id) toggles liked and clears
\* disliked, handleDislikeMessage(id) toggles disliked and clears liked, for
\* the messages with that id only and leaving id, role, content and position
\* of every message alone; the same handler applied twice to a message whose
\* opposite flag is not set gives back its liked and disliked as truth
\* values (a flag never set, undefined, comes back as false).
C21_Ids == {messages[i].id : i \in 1..Len(messages)}

C21_Exclusive ==
  \A i \in 1..Len(messages) :
    ~(messages[i].liked = "true" /\ messages[i].disliked = "true")

C21_Toggles(messageId, flag, other) ==
  /\ Cores(messages') = Cores(messages)
  /\ \A i \in 1..Len(messages) :
       IF messages[i].id = messageId
       THEN /\ messages'[i][flag] = (IF messages[i][flag] = "true"
                                     THEN "false" ELSE "true")
            /\ messages'[i][other] = "false"
       ELSE messages'[i] = messages[i]

C21_Handlers ==
  \A messageId \in C21_Ids :
    /\ handleLikeMessage(messageId) =>
         C21_Toggles(messageId, "liked", "disliked")
    /\ handleDislikeMessage(messageId) =>
         C21_Toggles(messageId, "disliked", "liked")

C21_Truth(m) == <<m.liked = "true", m.disliked = "true">>

C21_FeedbackFlags ==
  /\ []C21_Exclusive
  /\ [][C21_Handlers]_vars
  /\ [](\A i \in 1..Len(messages) :
          LET m == messages[i]
          IN /\ m.disliked # "true" =>
                  C21_Truth(Like(Like(m, m.id), m.id)) = C21_Truth(m)
             /\ m.liked # "true" =>
                  C21_Truth(Dislike(Dislike(m, m.id), m.id)) = C21_Truth(m))

\* C21 as stated: the same handler applied twice restores the values of
\* liked and disliked themselves
C21_FlagsRestored ==
  /\ []C21_Exclusive
  /\ [][C21_Handlers]_vars
  /\ [](\A i \in 1..Len(messages) :
          LET m == messages[i]
          IN /\ m.disliked # "true" =>
                  /\ Like(Like(m, m.id), m.id).liked = m.liked
                  /\ Like(Like(m, m.id), m.id).disliked = m.disliked
             /\ m.liked # "true" =>
                  /\ Dislike(Dislike(m, m.id), m.id).disliked = m.disliked
                  /\ Dislike(Dislike(m, m.id), m.id).liked = m.liked)

\* a dislike was given to an answer: its liked flag was cleared with it
C21_Witness ==
  /\ Len(messages) >= 2
  /\ messages[2].role = "assistant"
  /\ messages[2].liked = "false"
  /\ messages[2].disliked = "true"

\* C22: upload progress is bounded and honest: uploadProgress is one of
\* 0, 10, ..., 100; it is at most 90 while an upload request is in flight;
\* it becomes 100 only in the step that receives a successful upload
\* response; and an upload's delayed onUploadSuccess is set up only with
\* the progress at 100 for that upload.
C22_Bounded ==
  /\ uploadProgress \in {10 * n : n \in 0..10}
  /\ uploadReq # NoReq => uploadProgress <= 90

C22_Responded ==
  /\ uploadReq # NoReq
  /\ uploadReq' = NoReq
  /\ Len(timers') = Len(timers) + 1

C22_ProgressHonest ==
  /\ []C22_Bounded
  /\ [][(uploadProgress' = 100 /\ uploadProgress # 100) => C22_Responded]_vars
  /\ [][C22_Responded => uploadProgress' = 100]_vars

\* C23: App session state is consistent once the mount effect has run:
\* the chat view is shown exactly when sessionId is a non-empty string, and
\* then 'mdc_session_id' holds the current sessionId, whatever the order of
\* the delayed handleUploadSuccess calls and the handleNewSession calls.
C23_SessionConsistent ==
  effectRan =>
    /\ isUploaded <=> sessionId # ""
    /\ isUploaded => localStorage = sessionId

\* one delayed handleUploadSuccess has run while a second one is pending
C23_Witness ==
  /\ effectRan
  /\ isUploaded
  /\ sessionId = "s1"
  /\ timers = <<"s2">>

====
